---- MODULE Spec2Model ----
(***************************************************************************)
(* Lossless lottery contract (lossless_lott/smart-contracts/src/lib.rs).   *)
(*                                                                         *)
(* The contract is a NEAR smart contract: the host serialises the calls,   *)
(* so every method is one atomic step.  A panic inside a method aborts the *)
(* call and the host discards every write the call made, so a panicking    *)
(* call leaves the contract state as it was.                               *)
(*                                                                         *)
(* Balance is u128 in the source.  The model keeps the modular arithmetic  *)
(* but at BalanceBits bits, so that the overflow cases are reachable.      *)
(* Whether `+` on an overflow panics or wraps is fixed by the build        *)
(* profile (overflow-checks); the repository pins none, so the profile is  *)
(* chosen once, in Init, and both outcomes are explored.                   *)
(***************************************************************************)
EXTENDS Integers, Sequences, FiniteSets

\* ------------------------------------------------------------------ bounds
\* width of Balance in the model (u128 in the source)
BalanceBits == 4
\* width of one word drawn from the generator (usize in the source)
WordBits == 3
\* gas attached to every call (env::prepaid_gas())
PrepaidGas == 10

\* length of the generator's seed: [u8; 32]
SeedLen == 32

BalanceMax == 2^BalanceBits - 1
WordMax == 2^WordBits - 1
ByteMax == 255

\* the accounts that call the contract (env::predecessor_account_id())
Accounts == {"alice", "bob"}
OwnerAccount == "owner"
StakingAccount == "staking"
NoAccount == ""

\* the U128 arguments the callers pass to invest and to play
InvestAmounts == {0, 1, BalanceMax}
PlayAmounts == {0, 1, 2}
\* the thresholds the contract is constructed with
MinDeposits == {1, 2}

\* ----------------------------------------------------- entropy of the host
\* env::random_seed() hands back a byte vector; the contract accepts any
\* length.  ByteSeq(n, a, b) has n bytes, the i-th being a + b*i (mod 256).
ByteSeq(n, a, b) == [i \in 1..n |-> (a + b * i) % (ByteMax + 1)]

SeedLens == {0, 2, SeedLen, SeedLen + 1}
RandomSeeds == {ByteSeq(n, 7, 1) : n \in SeedLens}

VARIABLES
    owner_id,          \* Contract.owner_id
    staking_contract,  \* Contract.staking_contract
    investors,         \* Contract.investors : UnorderedMap<AccountId, Balance>
    players,           \* Contract.players   : UnorderedMap<AccountId, Balance>
    total_stake,       \* Contract.total_stake
    min_deposit,       \* Contract.min_deposit
    overflow_checks,   \* build profile: does an overflowing + panic (TRUE) or wrap
    call,              \* the call the host ran last
    ret,               \* what that call returned, or the panic that aborted it
    promises,          \* the promises (outbound calls) that call created
    seed_reads,        \* how often that call read env::random_seed()
    prev_draw,         \* history: one earlier successful draw, kept for comparison
    latest,            \* history: <<account, amount>> of each account's last successful invest
    staked,            \* history: the amounts of all stake calls issued, added up
    overwrote,         \* history: has an invest replaced a nonzero balance
    receipts,          \* host: the stake calls in flight to the staking contract
    stake_failed       \* host: has a stake call failed downstream

contract == <<owner_id, staking_contract, investors, players, total_stake, min_deposit>>
vars == <<owner_id, staking_contract, investors, players, total_stake, min_deposit,
          overflow_checks, call, ret, promises, seed_reads, prev_draw, latest,
          staked, overwrote, receipts, stake_failed>>
\* the history of the invests
invested == <<latest, staked, overwrote>>
\* what the host keeps of the calls it forwards
host == <<receipts, stake_failed>>
\* what no method of the contract writes
fixed == <<overflow_checks, prev_draw>>

\* ------------------------------------------------------------ UnorderedMap
\* near_sdk's UnorderedMap keeps a vector of keys and a parallel vector of
\* values; a new key is pushed at the end, a known key has its value replaced.
EmptyMap == [keys |-> <<>>, values |-> <<>>]

KeySet(m) == {m.keys[i] : i \in 1..Len(m.keys)}

IndexOf(m, k) == CHOOSE i \in 1..Len(m.keys) : m.keys[i] = k

Get(m, k) == m.values[IndexOf(m, k)]

\* mutant of insert: the key is pushed whether it is known or not
insert_push(m, k, v) ==
    [keys |-> Append(m.keys, k), values |-> Append(m.values, v)]

\* mutant of insert: a known key's value is replaced at the last index
insert_at_last(m, k, v) ==
    IF k \in KeySet(m)
    THEN [m EXCEPT !.values[Len(m.keys)] = v]
    ELSE [keys |-> Append(m.keys, k), values |-> Append(m.values, v)]

insert(m, k, v) ==
    IF k \in KeySet(m)
    THEN [m EXCEPT !.values[IndexOf(m, k)] = v]
    ELSE [keys |-> Append(m.keys, k), values |-> Append(m.values, v)]

\* ---------------------------------------------------------------- results
\* The panics of the source, under the names the specification gives them:
\*   "Deposit too low"                      InvalidDeposit
\*   "No players to select a winner from"   NoPlayers
\*   "attempt to add with overflow"         ArithmeticOverflow
Ok(b, a) == [err |-> "none", balance |-> b, account |-> a]
Unit == Ok(0, NoAccount)
Panic(e) == [err |-> e, balance |-> 0, account |-> NoAccount]

\* a draw as an observer sees it: the candidates, the entropy, the winner
\* and, to tell two draws apart, who asked and what the stake was
Draw(keys, seed, winner, who, stake) ==
    [drawn |-> TRUE, keys |-> keys, random_seed |-> seed, result |-> winner,
     predecessor |-> who, total_stake |-> stake]
NoDraw ==
    [drawn |-> FALSE, keys |-> <<>>, random_seed |-> <<>>, result |-> Unit,
     predecessor |-> NoAccount, total_stake |-> 0]

Call(op, who, amount, seed) ==
    [op |-> op, predecessor |-> who, amount |-> amount, random_seed |-> seed]

\* --------------------------------------------------------------- new
\* mutant of new: the threshold is stored in the wrong field
new_deposit_as_stake(owner, staking, m) ==
    /\ owner_id = owner
    /\ staking_contract = staking
    /\ investors = EmptyMap
    /\ players = EmptyMap
    /\ total_stake = m
    /\ min_deposit = 0

new(owner, staking, m) ==
    /\ owner_id = owner
    /\ staking_contract = staking
    /\ investors = EmptyMap
    /\ players = EmptyMap
    /\ total_stake = 0
    /\ min_deposit = m

Init ==
    /\ \E m \in MinDeposits :
          /\ new(OwnerAccount, StakingAccount, m)
          /\ call = Call("new", OwnerAccount, m, <<>>)
    /\ overflow_checks \in BOOLEAN
    /\ ret = Unit
    /\ promises = <<>>
    /\ seed_reads = 0
    /\ prev_draw = NoDraw
    /\ latest = {}
    /\ staked = 0
    /\ overwrote = FALSE
    /\ receipts = <<>>
    /\ stake_failed = FALSE

\* ------------------------------------------------------------ invest
\* The history adds the staked amounts exactly up to BalanceMax; any larger
\* total is kept as BalanceMax + 1, "more than a Balance holds".
Saturated(n) == IF n > BalanceMax THEN BalanceMax + 1 ELSE n

\* mutant of StakePromise: the amount is attached to the call as funds
StakePromiseWithFunds(amount) ==
    [receiver |-> staking_contract, method |-> "stake", args |-> amount,
     deposit |-> amount, gas |-> PrepaidGas \div 2]

\* mutant of StakePromise: the running total is forwarded, not the amount
StakePromiseOfTotal(amount) ==
    [receiver |-> staking_contract, method |-> "stake", args |-> total_stake,
     deposit |-> 0, gas |-> PrepaidGas \div 2]

StakePromise(amount) ==
    [receiver |-> staking_contract, method |-> "stake", args |-> amount,
     deposit |-> 0, gas |-> PrepaidGas \div 2]

\* mutant of Invest: a repeated invest adds to the balance instead of replacing it
InvestAccumulating(investor, amount) ==
    LET sum == total_stake + amount
        old == IF investor \in KeySet(investors) THEN Get(investors, investor) ELSE 0
    IN
    /\ call' = Call("invest", investor, amount, <<>>)
    /\ seed_reads' = 0
    /\ IF sum > BalanceMax /\ overflow_checks
       THEN /\ ret' = Panic("ArithmeticOverflow")
            /\ promises' = <<>>
            /\ UNCHANGED <<contract, invested>>
       ELSE /\ investors' = insert(investors, investor, (old + amount) % (BalanceMax + 1))
            /\ latest' = {e \in latest : e[1] # investor} \cup {<<investor, amount>>}
            /\ overwrote' = (overwrote \/ (investor \in KeySet(investors)
                                           /\ Get(investors, investor) # 0))
            /\ total_stake' = sum % (BalanceMax + 1)
            /\ promises' = <<StakePromise(amount)>>
            /\ staked' = Saturated(staked + StakePromise(amount).args)
            /\ ret' = Unit
            /\ UNCHANGED <<owner_id, staking_contract, players, min_deposit>>
    /\ UNCHANGED fixed

Invest(investor, amount) ==
    LET sum == total_stake + amount IN
    /\ call' = Call("invest", investor, amount, <<>>)
    /\ seed_reads' = 0
    /\ IF sum > BalanceMax /\ overflow_checks
       THEN \* `+=` panics: the insert before it is discarded with the call
            /\ ret' = Panic("ArithmeticOverflow")
            /\ promises' = <<>>
            /\ UNCHANGED <<contract, invested>>
       ELSE /\ investors' = insert(investors, investor, amount)
            /\ latest' = {e \in latest : e[1] # investor} \cup {<<investor, amount>>}
            /\ overwrote' = (overwrote \/ (investor \in KeySet(investors)
                                           /\ Get(investors, investor) # 0))
            /\ total_stake' = sum % (BalanceMax + 1)
            /\ promises' = <<StakePromise(amount)>>
            /\ staked' = Saturated(staked + StakePromise(amount).args)
            /\ ret' = Unit
            /\ UNCHANGED <<owner_id, staking_contract, players, min_deposit>>
    /\ UNCHANGED fixed

\* -------------------------------------------------------------- play
\* mutant of Play: the insert is done before the assert, and stays
PlayInsertThenAssert(player, amount) ==
    /\ call' = Call("play", player, amount, <<>>)
    /\ seed_reads' = 0
    /\ promises' = <<>>
    /\ players' = insert(players, player, amount)
    /\ ret' = IF amount >= min_deposit THEN Unit ELSE Panic("InvalidDeposit")
    /\ UNCHANGED <<owner_id, staking_contract, investors, total_stake, min_deposit>>
    /\ UNCHANGED <<fixed, invested>>

\* mutant of Play: the threshold itself is refused (> for >=)
PlayStrict(player, amount) ==
    /\ call' = Call("play", player, amount, <<>>)
    /\ seed_reads' = 0
    /\ promises' = <<>>
    /\ IF amount > min_deposit
       THEN /\ players' = insert(players, player, amount)
            /\ ret' = Unit
            /\ UNCHANGED <<owner_id, staking_contract, investors, total_stake, min_deposit>>
       ELSE /\ ret' = Panic("InvalidDeposit")
            /\ UNCHANGED contract
    /\ UNCHANGED <<fixed, invested>>

Play(player, amount) ==
    /\ call' = Call("play", player, amount, <<>>)
    /\ seed_reads' = 0
    /\ promises' = <<>>
    /\ IF amount >= min_deposit
       THEN /\ players' = insert(players, player, amount)
            /\ ret' = Unit
            /\ UNCHANGED <<owner_id, staking_contract, investors, total_stake, min_deposit>>
       ELSE /\ ret' = Panic("InvalidDeposit")
            /\ UNCHANGED contract
    /\ UNCHANGED <<fixed, invested>>

\* -------------------------------------------------- total_investment
\* Iterator::sum over the values vector: a left fold of `+` from 0, which
\* panics or wraps on overflow as the build profile says.  The result is
\* [overflowed, value]: whether some addition overflowed, and the wrapped sum.
RECURSIVE SumFrom(_, _, _)
SumFrom(values, i, acc) ==
    IF i > Len(values)
    THEN acc
    ELSE LET s == acc.value + values[i] IN
         SumFrom(values, i + 1,
                 [overflowed |-> acc.overflowed \/ s > BalanceMax,
                  value |-> s % (BalanceMax + 1)])

sum(values) == SumFrom(values, 1, [overflowed |-> FALSE, value |-> 0])

total_investment ==
    LET s == sum(investors.values) IN
    IF s.overflowed /\ overflow_checks
    THEN Panic("ArithmeticOverflow")
    ELSE Ok(s.value, NoAccount)

TotalInvestment(caller) ==
    /\ call' = Call("total_investment", caller, 0, <<>>)
    /\ ret' = total_investment
    /\ seed_reads' = 0
    /\ promises' = <<>>
    /\ UNCHANGED <<contract, fixed, invested>>

\* --------------------------------------------------- simulate_profit
\* mutant of simulate_profit: rounds to the nearest instead of down
simulate_profit_rounded == (total_stake + 5) \div 10

simulate_profit == total_stake \div 10

SimulateProfit(caller) ==
    /\ call' = Call("simulate_profit", caller, 0, <<>>)
    /\ ret' = Ok(simulate_profit, NoAccount)
    /\ seed_reads' = 0
    /\ promises' = <<>>
    /\ UNCHANGED <<contract, fixed, invested>>

\* ----------------------------------------------------- select_winner
\* seed_array: the first min(len, 32) bytes of the entropy, then zeros.
\* mutant of seed_array: the bytes the entropy does not cover are not zeroed
seed_array_unpadded(random_seed) ==
    LET bytes_to_copy == IF Len(random_seed) < SeedLen THEN Len(random_seed) ELSE SeedLen
    IN  [i \in 1..SeedLen |-> IF i <= bytes_to_copy THEN random_seed[i] ELSE ByteMax]

seed_array(random_seed) ==
    LET bytes_to_copy == IF Len(random_seed) < SeedLen THEN Len(random_seed) ELSE SeedLen
    IN  [i \in 1..SeedLen |-> IF i <= bytes_to_copy THEN random_seed[i] ELSE 0]

\* StdRng is the rand crate's generator, not code of this repository.  It is
\* modelled by what the contract relies on: from_seed is a deterministic
\* function of the 32 seed bytes, and the generator then yields a fixed
\* stream of words.  The stream here is a full-period linear congruential
\* one over WordBits-bit words; its first state is a polynomial hash of the
\* seed bytes, so that every byte and its position matter.
RECURSIVE FoldSeed(_, _, _)
FoldSeed(seed, i, h) ==
    IF i > Len(seed) THEN h
    ELSE FoldSeed(seed, i + 1, (h * 31 + seed[i] + 1) % 251)

from_seed(seed) == FoldSeed(seed, 1, 0)

next_state(rng) == (rng * 5 + 3) % (WordMax + 1)

\* gen_range(0..n): rand's widening-multiply sampling with rejection.  A word
\* v is drawn; (hi, lo) are the two halves of v * n; v is accepted when lo
\* lies in the zone that makes every index equally likely, and hi is the
\* index.  n > 0 (rand panics on an empty range).
zone(n) == WordMax - ((WordMax - n + 1) % n)

\* mutant of gen_range: the range is taken inclusive of n (0..=n)
RECURSIVE gen_range_inclusive(_, _)
gen_range_inclusive(rng, n) ==
    LET v == (rng * 5 + 3) % (WordMax + 1)
        hi == (v * (n + 1)) \div (WordMax + 1)
        lo == (v * (n + 1)) % (WordMax + 1)
    IN  IF lo <= zone(n + 1) THEN hi ELSE gen_range_inclusive(v, n)

RECURSIVE gen_range(_, _)
gen_range(rng, n) ==
    LET v == next_state(rng)
        hi == (v * n) \div (WordMax + 1)
        lo == (v * n) % (WordMax + 1)
    IN  IF lo <= zone(n) THEN hi ELSE gen_range(v, n)

\* StdRng::from_seed(seed_array) for every entropy value the host may hand
\* out, tabulated once (the fold over 32 bytes is the same at every call).
StdRng == [random_seed \in RandomSeeds |-> from_seed(seed_array(random_seed))]

\* mutant of select_winner: the stake is mixed into the generator's state
select_winner_stake_seeded(random_seed) ==
    LET keys == players.keys
        rng == (StdRng[random_seed] + total_stake) % 251
        winner_index == gen_range(rng, Len(keys))
    IN  IF winner_index < Len(keys)
        THEN Ok(0, keys[winner_index + 1])
        ELSE Panic("IndexOutOfBounds")

\* The index is 0-based in the source, sequences are 1-based here.  Indexing
\* a Vec out of its bounds panics.
select_winner(random_seed) ==
    LET keys == players.keys
        rng == StdRng[random_seed]
        winner_index == gen_range(rng, Len(keys))
    IN  IF winner_index < Len(keys)
        THEN Ok(0, keys[winner_index + 1])
        ELSE Panic("IndexOutOfBounds")

\* mutant of SelectWinner: a successful draw ends the round and clears the players
SelectWinnerResets(caller, random_seed, remember) ==
    /\ call' = Call("select_winner", caller, 0, random_seed)
    /\ promises' = <<>>
    /\ IF players.keys = <<>>
       THEN /\ ret' = Panic("NoPlayers")
            /\ seed_reads' = 0
            /\ UNCHANGED <<prev_draw, players>>
       ELSE /\ ret' = select_winner(random_seed)
            /\ seed_reads' = 1
            /\ players' = EmptyMap
            /\ prev_draw' = IF remember
                            THEN Draw(players.keys, random_seed, select_winner(random_seed),
                                      caller, total_stake)
                            ELSE prev_draw
    /\ UNCHANGED <<owner_id, staking_contract, investors, total_stake, min_deposit>>
    /\ UNCHANGED <<overflow_checks, invested>>

\* mutant of SelectWinner: the entropy is read before the emptiness check
SelectWinnerSeedFirst(caller, random_seed, remember) ==
    /\ call' = Call("select_winner", caller, 0, random_seed)
    /\ promises' = <<>>
    /\ seed_reads' = 1
    /\ IF players.keys = <<>>
       THEN /\ ret' = Panic("NoPlayers")
            /\ UNCHANGED prev_draw
       ELSE /\ ret' = select_winner(random_seed)
            /\ prev_draw' = IF remember
                            THEN Draw(players.keys, random_seed, select_winner(random_seed),
                                      caller, total_stake)
                            ELSE prev_draw
    /\ UNCHANGED <<contract, overflow_checks, invested>>

\* `remember` is the observer's choice to keep this draw in prev_draw; the
\* contract does not see it.
SelectWinner(caller, random_seed, remember) ==
    /\ call' = Call("select_winner", caller, 0, random_seed)
    /\ promises' = <<>>
    /\ IF players.keys = <<>>
       THEN /\ ret' = Panic("NoPlayers")
            /\ seed_reads' = 0
            /\ UNCHANGED prev_draw
       ELSE /\ ret' = select_winner(random_seed)
            /\ seed_reads' = 1
            /\ prev_draw' = IF remember
                            THEN Draw(players.keys, random_seed, select_winner(random_seed),
                                      caller, total_stake)
                            ELSE prev_draw
    /\ UNCHANGED <<contract, overflow_checks, invested>>

\* The stake calls the host forwards are not followed here: see SpecStake.
Next ==
    \/ \E c \in Accounts, a \in InvestAmounts : Invest(c, a) /\ UNCHANGED host
    \/ \E c \in Accounts, a \in PlayAmounts : Play(c, a) /\ UNCHANGED host
    \/ \E c \in Accounts : TotalInvestment(c) /\ UNCHANGED host
    \/ \E c \in Accounts : SimulateProfit(c) /\ UNCHANGED host
    \/ \E c \in Accounts, s \in RandomSeeds : SelectWinner(c, s, FALSE) /\ UNCHANGED host

Spec == Init /\ [][Next]_vars

\* The draws under observation: the same methods, with fewer arguments, and
\* an observer who may keep any successful draw to compare later ones with.
DrawSeeds == {ByteSeq(n, 7, 1) : n \in {2, SeedLen + 1}}

NextDraw ==
    \/ \E c \in Accounts : Invest(c, BalanceMax) /\ UNCHANGED host
    \/ \E c \in Accounts, a \in PlayAmounts : Play(c, a) /\ UNCHANGED host
    \/ \E c \in Accounts, s \in DrawSeeds, r \in BOOLEAN :
          SelectWinner(c, s, r) /\ UNCHANGED host

\* a build with overflow-checks: the stake stays 0 or BalanceMax here
InitDraw == Init /\ overflow_checks

SpecDraw == InitDraw /\ [][NextDraw]_vars

\* ------------------------------------------------------ the stake calls
\* The host forwards each promise of a finished call to its receiver.  The
\* promise of invest has no callback (no .then), so when the stake call
\* ends, well or badly, no code of the contract runs.
MaxPending == 2

RemoveAt(q, i) == [j \in 1..(Len(q) - 1) |-> IF j < i THEN q[j] ELSE q[j + 1]]

InvestForwarded(investor, amount) ==
    /\ Len(receipts) < MaxPending
    /\ Invest(investor, amount)
    /\ receipts' = receipts \o promises'
    /\ UNCHANGED stake_failed

\* mutant of StakeResolves: a failed stake call takes its amount back off the stake
StakeResolvesRollingBack(i, ok) ==
    /\ i \in 1..Len(receipts)
    /\ receipts' = RemoveAt(receipts, i)
    /\ stake_failed' = (stake_failed \/ ~ok)
    /\ total_stake' = IF ok \/ total_stake < receipts[i].args
                      THEN total_stake
                      ELSE total_stake - receipts[i].args
    /\ UNCHANGED <<owner_id, staking_contract, investors, players, min_deposit>>
    /\ UNCHANGED <<call, ret, promises, seed_reads, fixed, invested>>

StakeResolves(i, ok) ==
    /\ i \in 1..Len(receipts)
    /\ receipts' = RemoveAt(receipts, i)
    /\ stake_failed' = (stake_failed \/ ~ok)
    /\ UNCHANGED <<contract, call, ret, promises, seed_reads, fixed, invested>>

StakeSeeds == {ByteSeq(2, 7, 1)}

NextStake ==
    \/ \E c \in Accounts, a \in {1, BalanceMax} : InvestForwarded(c, a)
    \/ \E c \in Accounts : Play(c, 2) /\ UNCHANGED host
    \/ \E c \in Accounts : TotalInvestment(c) /\ UNCHANGED host
    \/ \E c \in Accounts, s \in StakeSeeds : SelectWinner(c, s, FALSE) /\ UNCHANGED host
    \/ \E i \in 1..MaxPending, ok \in BOOLEAN : StakeResolves(i, ok)

SpecStake == Init /\ [][NextStake]_vars

\* ================================================================ claims
\* exact (unbounded) sums, for stating what the ledger should add up to
RECURSIVE SeqSum(_)
SeqSum(q) == IF q = <<>> THEN 0 ELSE Head(q) + SeqSum(Tail(q))

RECURSIVE PairSum(_)
PairSum(S) ==
    IF S = {} THEN 0
    ELSE LET e == CHOOSE x \in S : TRUE IN e[2] + PairSum(S \ {e})

LastOp(op) == call.op = op
Succeeded == ret.err = "none"

\* C1: after successful invests, total_investment() returns the sum, over the
\* distinct investors, of the amount of each one's most recent invest.
C1_TotalInvestmentIsSumOfLatest ==
    LastOp("total_investment") => ret = Ok(PairSum(latest), NoAccount)

\* C1 in a build with overflow-checks, where an overflowing invest is refused
C1_HoldsWithOverflowChecks ==
    overflow_checks => C1_TotalInvestmentIsSumOfLatest

\* C2: the aggregate stake equals the sum of the investor balances in every
\* reachable state, also when an account has invested more than once.
C2_StakeEqualsInvestorSum ==
    total_stake = SeqSum(investors.values)

\* C3: play(amount) with amount < min_deposit fails with InvalidDeposit and
\* leaves the player ledger as it was.
C3_LowPlayRejected ==
    [][(call'.op = "play" /\ call'.amount < min_deposit)
         => (ret' = Panic("InvalidDeposit") /\ players' = players)]_vars

C3_Witness ==
    /\ LastOp("play")
    /\ call.amount < min_deposit
    /\ ret.err = "InvalidDeposit"
    /\ call.predecessor \in KeySet(players)
    /\ Get(players, call.predecessor) > call.amount

\* C4: select_winner() on an empty player ledger fails with NoPlayers, and
\* has not read the entropy source.
C4_EmptyDrawFailsBeforeEntropy ==
    (LastOp("select_winner") /\ players.keys = <<>>)
        => (ret = Panic("NoPlayers") /\ seed_reads = 0)

C4_Witness ==
    /\ LastOp("select_winner")
    /\ players.keys = <<>>
    /\ ret.err = "NoPlayers"
    /\ investors.keys # <<>>

\* C5: an invest whose addition to the aggregate stake leaves the range of
\* Balance fails with an arithmetic-overflow error and changes neither the
\* investor ledger nor total_stake.
C5_OverflowingInvestFails ==
    [][(call'.op = "invest" /\ total_stake + call'.amount > BalanceMax)
         => (/\ ret' = Panic("ArithmeticOverflow")
             /\ investors' = investors
             /\ total_stake' = total_stake)]_vars

\* C6: with a non-empty player ledger select_winner() returns, for every
\* entropy value, one account that is a key of the ledger; with a single
\* player it returns that player.
C6_WinnerIsAPlayer ==
    players.keys # <<>> =>
        /\ \A s \in RandomSeeds :
              /\ select_winner(s).err = "none"
              /\ select_winner(s).account \in KeySet(players)
              /\ Len(players.keys) = 1 => select_winner(s).account = players.keys[1]
        /\ LastOp("select_winner") => (Succeeded /\ ret.account \in KeySet(players))

C6_Witness ==
    /\ LastOp("select_winner")
    /\ Len(players.keys) = 2
    /\ Succeeded
    /\ ret.account = players.keys[2]
    /\ \E s \in RandomSeeds : select_winner(s).account = players.keys[1]

\* C7: play(amount) succeeds exactly when amount >= min_deposit and then
\* stores amount as the caller's balance; every balance in the player ledger
\* is >= min_deposit.
C7_PlayAcceptedIffAtLeastMin ==
    /\ LastOp("play") =>
          /\ Succeeded <=> call.amount >= min_deposit
          /\ Succeeded =>
                /\ call.predecessor \in KeySet(players)
                /\ Get(players, call.predecessor) = call.amount
    /\ \A i \in 1..Len(players.values) : players.values[i] >= min_deposit

C7_Witness ==
    /\ LastOp("play")
    /\ call.amount = min_deposit
    /\ Succeeded
    /\ Len(players.keys) = 2

\* C8: two draws over the same player sequence with the same entropy return
\* the same account, whoever asks and whatever the investor ledger, the stake
\* and the draws before are.
C8_DrawDeterministic ==
    (/\ LastOp("select_winner")
     /\ prev_draw.drawn
     /\ prev_draw.keys = players.keys
     /\ prev_draw.random_seed = call.random_seed)
        => ret = prev_draw.result

C8_Witness ==
    /\ LastOp("select_winner")
    /\ prev_draw.drawn
    /\ prev_draw.keys = players.keys
    /\ prev_draw.random_seed = call.random_seed
    /\ Len(players.keys) = 2
    /\ prev_draw.predecessor # call.predecessor
    /\ prev_draw.total_stake # total_stake
    /\ ret = prev_draw.result
    /\ ret.account = players.keys[2]

\* C9: a successful invest(amount) raises total_stake by exactly amount, and
\* no operation ever lowers total_stake.
C9_StakeNeverDecreases ==
    [][/\ total_stake' >= total_stake
       /\ (call'.op = "invest" /\ ret'.err = "none")
             => total_stake' = total_stake + call'.amount]_vars

\* C9 in a build with overflow-checks
C9_HoldsWithOverflowChecks ==
    [][overflow_checks =>
         /\ total_stake' >= total_stake
         /\ (call'.op = "invest" /\ ret'.err = "none")
               => total_stake' = total_stake + call'.amount]_vars

\* C10: simulate_profit() returns floor(total_stake / 10) and changes no state.
C10_ProfitIsFloorOfTenth ==
    /\ [](LastOp("simulate_profit") =>
            /\ Succeeded
            /\ 10 * ret.balance <= total_stake
            /\ total_stake < 10 * ret.balance + 10)
    /\ [][call'.op = "simulate_profit" => contract' = contract]_vars

C10_Witness ==
    /\ LastOp("simulate_profit")
    /\ total_stake >= 10
    /\ total_stake % 10 >= 5
    /\ ret.balance = 1

\* C11: right after new(owner, staking_contract, m) the threshold is m, the
\* identities are the arguments, both ledgers are empty, total_stake is 0,
\* total_investment() returns 0 and select_winner() fails with NoPlayers.
C11_FreshContract ==
    /\ [](LastOp("new") =>
            /\ min_deposit = call.amount
            /\ owner_id = OwnerAccount
            /\ staking_contract = StakingAccount
            /\ investors = EmptyMap
            /\ players = EmptyMap
            /\ total_stake = 0
            /\ total_investment = Ok(0, NoAccount))
    /\ [][(call.op = "new" /\ call'.op = "total_investment")
            => ret' = Ok(0, NoAccount)]_vars
    /\ [][(call.op = "new" /\ call'.op = "select_winner")
            => ret' = Panic("NoPlayers")]_vars

C11_Witness ==
    /\ LastOp("select_winner")
    /\ ret.err = "NoPlayers"
    /\ investors = EmptyMap
    /\ players = EmptyMap
    /\ total_stake = 0
    /\ min_deposit = 2

\* C13: a successful invest(amount) issues exactly one stake call, to the
\* staking contract, with amount as argument and no funds attached, and the
\* ledger and the stake are updated when it is issued; a failed invest and
\* play, total_investment and select_winner issue none.
C13_OneStakeCallPerInvest ==
    /\ [](/\ (LastOp("invest") /\ Succeeded) =>
                /\ Len(promises) = 1
                /\ promises[1].receiver = staking_contract
                /\ promises[1].method = "stake"
                /\ promises[1].args = call.amount
                /\ promises[1].deposit = 0
                /\ call.predecessor \in KeySet(investors)
                /\ Get(investors, call.predecessor) = call.amount
          /\ (LastOp("invest") /\ ~Succeeded) => promises = <<>>
          /\ call.op \in {"play", "total_investment", "select_winner"}
                => promises = <<>>)
    /\ [][(call'.op = "invest" /\ ret'.err = "none")
            => total_stake' = (total_stake + call'.amount) % (BalanceMax + 1)]_vars

C13_Witness ==
    /\ LastOp("invest")
    /\ Succeeded
    /\ call.amount = 1
    /\ Len(promises) = 1
    /\ promises[1].args = 1
    /\ Len(investors.keys) = 2
    /\ players.keys # <<>>

\* C15: invest by c changes only c's investor entry and total_stake; play by
\* c changes only c's player entry; total_investment, simulate_profit and
\* select_winner change nothing.
OthersKept(m, n, c) ==
    /\ KeySet(m) \subseteq KeySet(n)
    /\ KeySet(n) \subseteq KeySet(m) \cup {c}
    /\ \A k \in KeySet(m) \ {c} : Get(n, k) = Get(m, k)

C15_Frame ==
    [][/\ call'.op = "invest" =>
             /\ OthersKept(investors, investors', call'.predecessor)
             /\ UNCHANGED <<players, min_deposit, owner_id, staking_contract>>
       /\ call'.op = "play" =>
             /\ OthersKept(players, players', call'.predecessor)
             /\ UNCHANGED <<investors, total_stake, min_deposit, owner_id,
                            staking_contract>>
       /\ call'.op \in {"total_investment", "simulate_profit", "select_winner"}
             => UNCHANGED contract]_vars

C15_Witness ==
    /\ LastOp("invest")
    /\ Succeeded
    /\ Len(investors.keys) = 2
    /\ investors.keys[1] = call.predecessor
    /\ investors.values[1] # investors.values[2]
    /\ Len(players.keys) = 2

\* C16: there is no round reset: an account that has played successfully is a
\* key of the player ledger, hence a candidate of every later draw, in every
\* later state.
C16_PlayersStay ==
    /\ []((LastOp("play") /\ Succeeded) => call.predecessor \in KeySet(players))
    /\ [][KeySet(players) \subseteq KeySet(players')]_vars

C16_Witness ==
    /\ LastOp("select_winner")
    /\ Succeeded
    /\ Len(players.keys) = 2
    /\ ret.account = players.keys[1]
    /\ investors.keys # <<>>

\* C17: the seed of the generator is exactly 32 bytes: the first min(len, 32)
\* bytes of the entropy in order, then zeros; entropy beyond the 32nd byte is
\* ignored.
C17_SeedIsPaddedPrefix ==
    (LastOp("select_winner") /\ seed_reads = 1) =>
        LET entropy == call.random_seed
            seed == seed_array(entropy)
        IN  /\ DOMAIN seed = 1..32
            /\ \A i \in 1..32 :
                  seed[i] = IF i <= Len(entropy) THEN entropy[i] ELSE 0
            /\ \A longer \in RandomSeeds :
                  (/\ Len(longer) > 32
                   /\ Len(entropy) >= 32
                   /\ \A i \in 1..32 : longer[i] = entropy[i])
                      => /\ seed_array(longer) = seed
                         /\ StdRng[longer] = StdRng[entropy]

C17_Witness ==
    /\ LastOp("select_winner")
    /\ seed_reads = 1
    /\ Len(call.random_seed) = 2
    /\ seed_array(call.random_seed)[2] = 9
    /\ seed_array(call.random_seed)[3] = 0
    /\ \E longer \in RandomSeeds :
          /\ Len(longer) = 33
          /\ longer[33] # 0
          /\ seed_array(longer)[32] = longer[32]

\* C18: the candidates of a draw hold each account that has played
\* successfully exactly once: a successful play adds its caller to the keys
\* if it is new and nothing otherwise, and no key is ever there twice.
C18_OneCandidatePerPlayer ==
    /\ [](Cardinality(KeySet(players)) = Len(players.keys))
    /\ [](Len(players.values) = Len(players.keys))
    /\ [][IF call'.op = "play" /\ ret'.err = "none"
          THEN /\ KeySet(players') = KeySet(players) \cup {call'.predecessor}
               /\ call'.predecessor \in KeySet(players) => players'.keys = players.keys
          ELSE players'.keys = players.keys]_vars

C18_Witness ==
    /\ LastOp("play")
    /\ Succeeded
    /\ players.keys = <<call.predecessor, "bob">>
    /\ call.predecessor = "alice"
    /\ players.values[1] # players.values[2]

\* no addition has left the range of Balance so far
NoOverflowYet == staked <= BalanceMax

\* C19: without arithmetic overflow total_stake >= total_investment(), with
\* equality exactly when no invest has replaced a nonzero balance; the profit
\* is computed from a stake that can exceed the investors' sum.
C19_StakeAtLeastInvestorSum ==
    NoOverflowYet =>
        /\ total_investment.err = "none"
        /\ total_stake >= total_investment.balance
        /\ (total_stake = total_investment.balance) <=> ~overwrote

C19_Witness ==
    /\ LastOp("simulate_profit")
    /\ NoOverflowYet
    /\ overwrote
    /\ ret.balance = 1
    /\ total_investment.balance < 10
    /\ total_stake > total_investment.balance

\* C20: without arithmetic overflow total_stake equals the sum of the amounts
\* of all stake calls issued so far.
C20_StakeEqualsForwarded ==
    NoOverflowYet => total_stake = staked

C20_Witness ==
    /\ LastOp("play")
    /\ Succeeded
    /\ NoOverflowYet
    /\ overwrote
    /\ total_stake = staked
    /\ staked > total_investment.balance
    /\ Len(investors.keys) = 2

\* C14: the stake call is fire-and-forget: when it ends, well or badly, the
\* ledgers, the stake and the last result stay as they are, no error appears
\* and no call is issued again; and whatever has ended or is still in flight,
\* the recorded investments stand and the methods answer from them alone.
C14_FireAndForget ==
    /\ [][Len(receipts') < Len(receipts)
            => /\ contract' = contract
               /\ ret' = ret
               /\ promises' = promises
               /\ Len(receipts') = Len(receipts) - 1]_vars
    /\ [](\A e \in latest :
             e[1] \in KeySet(investors) /\ Get(investors, e[1]) = e[2])
    /\ [](NoOverflowYet => total_stake = staked)
    /\ []((LastOp("total_investment") /\ NoOverflowYet)
             => ret = Ok(PairSum(latest), NoAccount))

C14_Witness ==
    /\ stake_failed
    /\ receipts # <<>>
    /\ LastOp("total_investment")
    /\ NoOverflowYet
    /\ ret = Ok(PairSum(latest), NoAccount)
    /\ ret.balance > 1
    /\ total_stake = staked
====
